---- MODULE Spec2Model ----
(***************************************************************************)
(* KiCad-wakatime: the activity tracker (UserActivityTracker), the         *)
(* heartbeat scheduler (KiCadWakaTime.send_heartbeat) and the poll loop    *)
(* (KiCadWakaTime.run) of src/kicad_wakatime.py, with the pynput listener  *)
(* threads that call on_activity concurrently with the poll loop.          *)
(*                                                                         *)
(* Time is the wall clock time.time() in whole seconds.  It advances by    *)
(* the steps of Deltas at any point of any thread.                         *)
(*                                                                         *)
(* Spec starts after construction, at the top of the loop.  StartupSpec    *)
(* starts before it, with the CLI and ~/.wakatime.cfg present or not.      *)
(* TenSecondSpec is the loop on a clock observed ten seconds apart.        *)
(* LiveSpec is the loop left to run for ever, with fairness, while the     *)
(* same file stays in the foreground and the user stays active.            *)
(***************************************************************************)
EXTENDS Integers, Sequences, FiniteSets, TLC

\* ---- bounds of the model ------------------------------------------------
\* The clock stops advancing Horizon seconds after construction.
Horizon == 93
\* The most seconds by which time.sleep(5) returns late (LiveSpec).
MaxOverrun == 1

\* ---- program constants --------------------------------------------------
\* self.heartbeat_frequency = 60
heartbeat_frequency == 60
\* time.sleep(5)
SleepSeconds == 5
\* --inactivity-threshold, default=60
DefaultInactivityThreshold == 60
\* time.time() when the tracker is constructed: an epoch time, far above
\* heartbeat_frequency, so the first tick is always past the frequency.
T0 == 1000

MaxTime == T0 + Horizon

\* Seconds by which the clock moves between two observations of it.
Deltas == {30, 31}

\* --inactivity-threshold: the default (60) and one more value.
InactivityThresholds == {60, 61}

\* Python's None where a string is expected (self.last_file = None), and
\* where a tuple is expected (get_active_kicad_window returns None).
None == "<None>"
NoneTuple == <<>>

\* The pynput listener threads.
Listeners == {"mouse", "keyboard"}

\* ---- the window inspector's observations --------------------------------
\* What one call of get_active_kicad_window finds in the foreground:
\*   raises     a call inside the try raised after the title was read (the
\*              window went away before win32process looked it up)
\*   kicad_exe  the process name contains a KiCad executable fragment
\*   kicad_title the title contains a KiCad application fragment
\*   old        the filename and extension matched by the old-format
\*              pattern, <<>> when it does not match
\*   new        the project name and editor type matched by the new-format
\*              pattern, <<>> when it does not match
\*   prj_dir    what get_curr_prj_dir returns for the project (None on
\*              failure)
Windows ==
    { [raises |-> TRUE, kicad_exe |-> FALSE, kicad_title |-> TRUE,
       old |-> <<"board", ".kicad_pcb">>, new |-> <<>>, prj_dir |-> None],
      [raises |-> FALSE, kicad_exe |-> FALSE, kicad_title |-> FALSE,
       old |-> <<>>, new |-> <<>>, prj_dir |-> None],
      [raises |-> FALSE, kicad_exe |-> TRUE, kicad_title |-> TRUE,
       old |-> <<"board", ".kicad_pcb">>, new |-> <<>>, prj_dir |-> None],
      [raises |-> FALSE, kicad_exe |-> TRUE, kicad_title |-> TRUE,
       old |-> <<>>, new |-> <<"myproj", "PCB Editor">>,
       prj_dir |-> "C:\\projects\\myproj"],
      [raises |-> FALSE, kicad_exe |-> FALSE, kicad_title |-> TRUE,
       old |-> <<>>, new |-> <<"myproj", "PCB Editor">>, prj_dir |-> None],
      [raises |-> FALSE, kicad_exe |-> FALSE, kicad_title |-> TRUE,
       old |-> <<>>, new |-> <<"myproj.kicad_pcb", "PCBNew">>,
       prj_dir |-> None],
      [raises |-> FALSE, kicad_exe |-> TRUE, kicad_title |-> FALSE,
       old |-> <<>>, new |-> <<>>, prj_dir |-> None] }

\* No window observed (outside get_active_kicad_window).
NoWindow ==
    [raises |-> FALSE, kicad_exe |-> FALSE, kicad_title |-> FALSE,
     old |-> <<>>, new |-> <<>>, prj_dir |-> "-"]

\* Map editor type to file extension (the if/elif chain).
EditorExtension(editor_type) ==
    CASE editor_type = "PCB Editor"       -> ".kicad_pcb"
      [] editor_type = "Schematic Editor" -> ".kicad_sch"
      [] editor_type = "KiCad"            -> ".kicad_pro"
      [] editor_type = "Symbol Editor"    -> ".kicad_sym"
      [] editor_type = "Footprint Editor" -> ".kicad_mod"
      [] OTHER                            -> ""

\* str(x) of a directory or None.
Str(x) == IF x = None THEN "None" ELSE x

\* get_active_kicad_window giving up when the project directory is not
\* found.
get_active_kicad_window_needs_dir(w) ==
    IF w.raises THEN NoneTuple
    ELSE IF ~(w.kicad_title \/ w.kicad_exe) THEN NoneTuple
    ELSE IF w.old # <<>> THEN <<w.old[1] \o w.old[2], w.old[1]>>
    ELSE IF w.new # <<>> /\ w.prj_dir # None
         THEN <<Str(w.prj_dir) \o "\\" \o w.new[1] \o EditorExtension(w.new[2]),
                w.new[1]>>
    ELSE NoneTuple

\* get_active_kicad_window: (file, project_name) or None.
get_active_kicad_window(w) ==
    IF w.raises THEN NoneTuple
    ELSE IF ~(w.kicad_title \/ w.kicad_exe) THEN NoneTuple
    ELSE IF w.old # <<>> THEN <<w.old[1] \o w.old[2], w.old[1]>>
    ELSE IF w.new # <<>>
         THEN <<Str(w.prj_dir) \o "\\" \o w.new[1] \o EditorExtension(w.new[2]),
                w.new[1]>>
    ELSE NoneTuple

VARIABLES
    now,                  \* time.time()
    \* UserActivityTracker
    last_activity_time,
    inactivity_threshold,
    is_active,
    lock,                 \* self.lock: "free" or the thread holding it
    tracking_enabled,
    listeners,            \* mouse_listener and keyboard_listener: "none"
                          \* (never created), "running" or "stopped"
    stop_calls,           \* calls of stop() so far
    pcl,                  \* where each listener thread is in on_activity
    \* KiCadWakaTime
    last_heartbeat_at,
    last_file,
    dry_run,
    wakatime_cfg,         \* the settings section of ~/.wakatime.cfg
    api_key,
    api_url,
    heartbeat,            \* --entity and --project of the last cmd built
    exit_code,            \* the exit code of the process, once it has ended
    cli_exists,           \* a wakatime-cli* file exists in ~/.wakatime
    \* the poll loop thread
    pc,                   \* where the main thread is
    window,               \* get_active_kicad_window: the window it looks at
    active_file,          \* run: active_file / send_heartbeat: file_info
    hb_now,               \* send_heartbeat: now
    time_since_activity,  \* check_activity: time_since_activity
    is_user_active,       \* send_heartbeat: is_user_active
    seconds_since_activity, \* what get_time_since_activity returned
    sleep_until,          \* when time.sleep(5) returns
    last_log              \* the last message logged by the poll loop thread

vars == <<now, last_activity_time, inactivity_threshold, is_active, lock,
          tracking_enabled, listeners, stop_calls, pcl,
          last_heartbeat_at, last_file, dry_run, wakatime_cfg, api_key,
          api_url, heartbeat, exit_code, cli_exists, pc, window, active_file,
          hb_now, time_since_activity, is_user_active, seconds_since_activity,
          sleep_until, last_log>>

\* The fields of UserActivityTracker that on_activity and the queries share.
ActivityState == <<last_activity_time, is_active>>
\* The rest of UserActivityTracker.
TrackerRest == <<inactivity_threshold, tracking_enabled, listeners,
                 stop_calls>>
\* The scheduler's fields of KiCadWakaTime.
SchedulerState == <<last_heartbeat_at, last_file>>
\* The locals of run, get_active_kicad_window, send_heartbeat and
\* check_activity.
PollLocals == <<window, active_file, hb_now, time_since_activity,
                is_user_active, seconds_since_activity, sleep_until>>
\* What the command line and KiCadWakaTime.__init__ fix for the whole run.
Settings == <<dry_run, wakatime_cfg, api_key, api_url>>

\* api_url when ~/.wakatime.cfg has none.
DefaultApiUrl == "https://api.wakatime.com/api/v1"

\* No value yet (an unbound local).
Unset == -1

\* ---- construction: KiCadWakaTime(dry_run, inactivity_threshold) ---------
\* UserActivityTracker.__init__ and KiCadWakaTime.__init__ have run, the CLI
\* was found and the configuration loaded, and run() is at the top of its
\* loop.
Init ==
    /\ now = T0
    /\ last_activity_time = T0
    /\ inactivity_threshold \in InactivityThresholds
    /\ is_active = TRUE
    /\ lock = "free"
    /\ tracking_enabled \in BOOLEAN
    /\ listeners = IF tracking_enabled THEN "running" ELSE "none"
    /\ stop_calls = 0
    /\ pcl = [t \in Listeners |-> "idle"]
    /\ last_heartbeat_at = 0
    /\ last_file = None
    /\ dry_run \in BOOLEAN
    /\ wakatime_cfg = [api_key |-> "key", api_url |-> None]
    /\ api_key = "key"
    /\ api_url = DefaultApiUrl
    /\ heartbeat = NoneTuple
    /\ exit_code = Unset
    /\ cli_exists = TRUE
    /\ pc = "loop"
    /\ window = NoWindow
    /\ active_file = NoneTuple
    /\ hb_now = Unset
    /\ time_since_activity = Unset
    /\ is_user_active = TRUE
    /\ seconds_since_activity = Unset
    /\ sleep_until = Unset
    /\ last_log = "none"

\* ---- startup: the __main__ block up to kicad_wakatime.run() ---------------
\* What ~/.wakatime.cfg can hold in its settings section: api_key and
\* api_url, each present or missing.
ConfigFiles ==
    { [api_key |-> k, api_url |-> u] :
        k \in {None, "key"}, u \in {None, "https://wakapi.example/api"} }

\* The process has parsed its arguments and is about to construct
\* KiCadWakaTime; the tracker does not exist yet.
InitStart ==
    /\ now = T0
    /\ last_activity_time = T0
    /\ inactivity_threshold \in InactivityThresholds
    /\ is_active = TRUE
    /\ lock = "free"
    /\ tracking_enabled \in BOOLEAN
    /\ listeners = "none"
    /\ stop_calls = 0
    /\ pcl = [t \in Listeners |-> "idle"]
    /\ last_heartbeat_at = 0
    /\ last_file = None
    /\ dry_run \in BOOLEAN
    /\ wakatime_cfg \in ConfigFiles
    /\ api_key = None
    /\ api_url = None
    /\ heartbeat = NoneTuple
    /\ exit_code = Unset
    /\ cli_exists \in BOOLEAN
    /\ pc = "start"
    /\ window = NoWindow
    /\ active_file = NoneTuple
    /\ hb_now = Unset
    /\ time_since_activity = Unset
    /\ is_user_active = TRUE
    /\ seconds_since_activity = Unset
    /\ sleep_until = Unset
    /\ last_log = "none"

\* KiCadWakaTime.__init__ up to and including the construction of the
\* tracker: UserActivityTracker.__init__ stamps the time and starts the
\* listeners.
UserActivityTracker_init ==
    /\ pc = "start"
    /\ pc' = "init"
    /\ last_heartbeat_at' = 0
    /\ last_file' = None
    /\ last_activity_time' = now
    /\ is_active' = TRUE
    /\ listeners' = IF tracking_enabled THEN "running" ELSE "none"
    /\ UNCHANGED <<now, inactivity_threshold, tracking_enabled, stop_calls,
                   lock, pcl, Settings, heartbeat, exit_code, cli_exists,
                   PollLocals, last_log>>

\* The rest of KiCadWakaTime.__init__ starting the loop whether or not the
\* CLI is found.
KiCadWakaTime_init_without_cli_check ==
    /\ pc = "init"
    /\ IF wakatime_cfg.api_key = None
       THEN /\ pc' = "exited"
            /\ exit_code' = 1
            /\ last_log' = "failed_to_start"
            /\ listeners' = IF tracking_enabled THEN "ended" ELSE "none"
            /\ pcl' = [t \in Listeners |-> "idle"]
            /\ lock' = "free"
            /\ UNCHANGED <<api_key, api_url>>
       ELSE /\ api_key' = wakatime_cfg.api_key
            /\ api_url' = IF wakatime_cfg.api_url = None
                          THEN DefaultApiUrl ELSE wakatime_cfg.api_url
            /\ pc' = "loop"
            /\ UNCHANGED <<exit_code, last_log, listeners, pcl, lock>>
    /\ UNCHANGED <<now, ActivityState, inactivity_threshold, tracking_enabled,
                   stop_calls, SchedulerState, dry_run, wakatime_cfg,
                   heartbeat, cli_exists, PollLocals>>

\* The rest of KiCadWakaTime.__init__: the glob for wakatime-cli* and
\* load_wakatime_config.  Either raises an Exception, which the handler of
\* the __main__ block logs before sys.exit(1); the listeners are daemon
\* threads and end with the process.  Otherwise run() is entered.
KiCadWakaTime_init ==
    /\ pc = "init"
    /\ IF ~cli_exists \/ wakatime_cfg.api_key = None
       THEN /\ pc' = "exited"
            /\ exit_code' = 1
            /\ last_log' = "failed_to_start"
            /\ listeners' = IF tracking_enabled THEN "ended" ELSE "none"
            /\ pcl' = [t \in Listeners |-> "idle"]
            /\ lock' = "free"
            /\ UNCHANGED <<api_key, api_url>>
       ELSE /\ api_key' = wakatime_cfg.api_key
            /\ api_url' = IF wakatime_cfg.api_url = None
                          THEN DefaultApiUrl ELSE wakatime_cfg.api_url
            /\ pc' = "loop"
            /\ UNCHANGED <<exit_code, last_log, listeners, pcl, lock>>
    /\ UNCHANGED <<now, ActivityState, inactivity_threshold, tracking_enabled,
                   stop_calls, SchedulerState, dry_run, wakatime_cfg,
                   heartbeat, cli_exists, PollLocals>>

\* ---- the environment ----------------------------------------------------
\* Time passes, from the construction of the tracker (T0) until the process
\* has ended.
Advance ==
    /\ pc \notin {"start", "init", "stopped", "exited"}
    /\ \E d \in Deltas : now + d <= MaxTime /\ now' = now + d
    /\ UNCHANGED <<ActivityState, TrackerRest, SchedulerState, PollLocals,
                   lock, pcl, Settings, heartbeat, exit_code, cli_exists, pc,
                   last_log>>

\* The times after T0 at which the clock is observed when ticks ten seconds
\* (two sleeps) apart are followed: ten seconds after construction, then
\* heartbeat_frequency seconds after it and ten seconds later.
TenSecondGrid ==
    { T0 + 2 * SleepSeconds,
      T0 + heartbeat_frequency,
      T0 + heartbeat_frequency + 2 * SleepSeconds }

\* Time passes to a later point of TenSecondGrid.
AdvanceTen ==
    /\ pc \notin {"start", "init", "stopped", "exited"}
    /\ \E t \in TenSecondGrid : t > now /\ now' = t
    /\ UNCHANGED <<ActivityState, TrackerRest, SchedulerState, PollLocals,
                   lock, pcl, Settings, heartbeat, exit_code, cli_exists, pc,
                   last_log>>

\* The wakatime-cli file is removed from, or put back into, ~/.wakatime.
CliChange ==
    /\ pc \notin {"stopped", "exited"}
    /\ cli_exists' = ~cli_exists
    /\ UNCHANGED <<now, ActivityState, TrackerRest, SchedulerState, PollLocals,
                   lock, pcl, Settings, heartbeat, exit_code, pc, last_log>>

\* ---- UserActivityTracker.on_activity, on a listener thread t -------------
\* on_activity entering its block without waiting for the lock.
on_activity_acquire_nowait(t) ==
    /\ listeners = "running"
    /\ pcl[t] = "idle"
    /\ lock' = t
    /\ pcl' = [pcl EXCEPT ![t] = "set_time"]
    /\ UNCHANGED <<now, ActivityState, TrackerRest, SchedulerState, PollLocals,
                   Settings, heartbeat, exit_code, cli_exists, pc, last_log>>

\* An input event arrives and the callback enters `with self.lock`.
on_activity_acquire(t) ==
    /\ listeners = "running"
    /\ pcl[t] = "idle"
    /\ lock = "free"
    /\ lock' = t
    /\ pcl' = [pcl EXCEPT ![t] = "set_time"]
    /\ UNCHANGED <<now, ActivityState, TrackerRest, SchedulerState, PollLocals,
                   Settings, heartbeat, exit_code, cli_exists, pc, last_log>>

\* self.last_activity_time = time.time()
on_activity_set_time(t) ==
    /\ pcl[t] = "set_time"
    /\ last_activity_time' = now
    /\ pcl' = [pcl EXCEPT ![t] = "set_active"]
    /\ UNCHANGED <<now, is_active, TrackerRest, SchedulerState, PollLocals,
                   lock, Settings, heartbeat, exit_code, cli_exists, pc,
                   last_log>>

\* on_activity that updates the timestamp and leaves the flag alone.
on_activity_keeps_flag(t) ==
    /\ pcl[t] = "set_active"
    /\ pcl' = [pcl EXCEPT ![t] = "release"]
    /\ UNCHANGED <<now, ActivityState, TrackerRest, SchedulerState, PollLocals,
                   lock, Settings, heartbeat, exit_code, cli_exists, pc,
                   last_log>>

\* self.is_active = True
on_activity_set_active(t) ==
    /\ pcl[t] = "set_active"
    /\ is_active' = TRUE
    /\ pcl' = [pcl EXCEPT ![t] = "release"]
    /\ UNCHANGED <<now, last_activity_time, TrackerRest, SchedulerState,
                   PollLocals, lock, Settings, heartbeat, exit_code,
                   cli_exists, pc, last_log>>

\* The end of the with block.
on_activity_release(t) ==
    /\ pcl[t] = "release"
    /\ lock' = "free"
    /\ pcl' = [pcl EXCEPT ![t] = "idle"]
    /\ UNCHANGED <<now, ActivityState, TrackerRest, SchedulerState, PollLocals,
                   Settings, heartbeat, exit_code, cli_exists, pc, last_log>>

on_activity(t) ==
    \/ on_activity_acquire(t)
    \/ on_activity_set_time(t)
    \/ on_activity_set_active(t)
    \/ on_activity_release(t)

\* ---- KiCadWakaTime.run and send_heartbeat, on the poll loop thread -------
\* time.sleep(5) is entered: it returns once five seconds have passed.
EnterSleep ==
    /\ pc' = "sleeping"
    /\ sleep_until' = now + SleepSeconds

\* The top of the loop forgetting the recorded file when no file is found.
Classify_forgets_file ==
    /\ pc = "loop"
    /\ \E w \in Windows :
         /\ window' = w
         /\ active_file' = get_active_kicad_window(w)
         /\ last_log' = IF w.raises THEN "window_error" ELSE "none"
    /\ IF active_file' # NoneTuple
       THEN pc' = "hb_entry" /\ UNCHANGED <<sleep_until, last_file>>
       ELSE EnterSleep /\ last_file' = None
    /\ UNCHANGED <<now, ActivityState, TrackerRest, last_heartbeat_at, lock,
                   pcl, Settings, heartbeat, exit_code, cli_exists, hb_now,
                   time_since_activity, is_user_active,
                   seconds_since_activity>>

\* active_file = self.get_active_kicad_window(); if active_file: ...
Classify ==
    /\ pc = "loop"
    /\ \E w \in Windows :
         /\ window' = w
         /\ active_file' = get_active_kicad_window(w)
         /\ last_log' = IF w.raises THEN "window_error" ELSE "none"
    /\ IF active_file' # NoneTuple
       THEN pc' = "hb_entry" /\ UNCHANGED sleep_until
       ELSE EnterSleep
    /\ UNCHANGED <<now, ActivityState, TrackerRest, SchedulerState, lock, pcl,
                   Settings, heartbeat, exit_code, cli_exists, hb_now,
                   time_since_activity, is_user_active,
                   seconds_since_activity>>

\* send_heartbeat stamping last_heartbeat_at as soon as it has read the
\* time, before the if.
send_heartbeat_entry_stamps ==
    /\ pc = "hb_entry"
    /\ IF ~cli_exists /\ ~dry_run
       THEN /\ last_log' = "cli_not_found"
            /\ EnterSleep
            /\ UNCHANGED <<hb_now, last_heartbeat_at>>
       ELSE /\ hb_now' = now
            /\ last_heartbeat_at' = now
            /\ pc' = "ca_entry"
            /\ UNCHANGED <<last_log, sleep_until>>
    /\ UNCHANGED <<now, ActivityState, TrackerRest, last_file, lock, pcl,
                   Settings, heartbeat, exit_code, window, cli_exists,
                   active_file, time_since_activity, is_user_active,
                   seconds_since_activity>>

\* send_heartbeat up to now = time.time(): the CLI existence check returns
\* early, before anything is evaluated.
send_heartbeat_entry ==
    /\ pc = "hb_entry"
    /\ IF ~cli_exists /\ ~dry_run
       THEN /\ last_log' = "cli_not_found"
            /\ EnterSleep
            /\ UNCHANGED hb_now
       ELSE /\ hb_now' = now
            /\ pc' = "ca_entry"
            /\ UNCHANGED <<last_log, sleep_until>>
    /\ UNCHANGED <<now, ActivityState, TrackerRest, SchedulerState, lock, pcl,
                   Settings, heartbeat, exit_code, window, cli_exists,
                   active_file, time_since_activity, is_user_active,
                   seconds_since_activity>>

\* check_activity without the tracking_enabled test.
check_activity_entry_untested ==
    /\ pc = "ca_entry"
    /\ lock = "free"
    /\ lock' = "poll"
    /\ pc' = "ca_read"
    /\ UNCHANGED <<now, ActivityState, TrackerRest, SchedulerState, pcl,
                   Settings, heartbeat, exit_code, window, cli_exists,
                   active_file, hb_now, time_since_activity, is_user_active,
                   seconds_since_activity, sleep_until, last_log>>

\* check_activity: the tracking_enabled test, then `with self.lock`.
check_activity_entry ==
    /\ pc = "ca_entry"
    /\ IF ~tracking_enabled
       THEN /\ is_user_active' = TRUE
            /\ pc' = "decide"
            /\ UNCHANGED lock
       ELSE /\ lock = "free"
            /\ lock' = "poll"
            /\ pc' = "ca_read"
            /\ UNCHANGED is_user_active
    /\ UNCHANGED <<now, ActivityState, TrackerRest, SchedulerState, pcl,
                   Settings, heartbeat, exit_code, window, cli_exists,
                   active_file, hb_now, time_since_activity,
                   seconds_since_activity, sleep_until, last_log>>

\* check_activity restamping last_activity_time when it has read it.
check_activity_read_restamps ==
    /\ pc = "ca_read"
    /\ time_since_activity' = now - last_activity_time
    /\ last_activity_time' = now
    /\ pc' = "ca_update"
    /\ UNCHANGED <<now, is_active, TrackerRest, SchedulerState, lock, pcl,
                   Settings, heartbeat, exit_code, window, cli_exists,
                   active_file, hb_now, is_user_active,
                   seconds_since_activity, sleep_until, last_log>>

\* time_since_activity = current_time - self.last_activity_time
check_activity_read ==
    /\ pc = "ca_read"
    /\ time_since_activity' = now - last_activity_time
    /\ pc' = "ca_update"
    /\ UNCHANGED <<now, ActivityState, TrackerRest, SchedulerState, lock, pcl,
                   Settings, heartbeat, exit_code, window, cli_exists,
                   active_file, hb_now, is_user_active, seconds_since_activity,
                   sleep_until, last_log>>

\* check_activity comparing with >= instead of >.
check_activity_update_ge ==
    /\ pc = "ca_update"
    /\ is_active' = IF time_since_activity >= inactivity_threshold
                    THEN FALSE ELSE is_active
    /\ last_log' = IF time_since_activity >= inactivity_threshold /\ is_active
                   THEN "went_inactive" ELSE last_log
    /\ pc' = "ca_return"
    /\ UNCHANGED <<now, last_activity_time, TrackerRest, SchedulerState, lock,
                   pcl, Settings, heartbeat, exit_code, window, cli_exists,
                   active_file, hb_now, time_since_activity, is_user_active,
                   seconds_since_activity, sleep_until>>

\* check_activity logging "User inactive" on every query past the threshold.
check_activity_update_logs_always ==
    /\ pc = "ca_update"
    /\ is_active' = IF time_since_activity > inactivity_threshold
                    THEN FALSE ELSE is_active
    /\ last_log' = IF time_since_activity > inactivity_threshold
                   THEN "went_inactive" ELSE last_log
    /\ pc' = "ca_return"
    /\ UNCHANGED <<now, last_activity_time, TrackerRest, SchedulerState, lock,
                   pcl, Settings, heartbeat, exit_code, window, cli_exists,
                   active_file, hb_now, time_since_activity, is_user_active,
                   seconds_since_activity, sleep_until>>

\* if time_since_activity > self.inactivity_threshold:
\*     if self.is_active: logger.info("User inactive for ...")
\*     self.is_active = False
check_activity_update ==
    /\ pc = "ca_update"
    /\ is_active' = IF time_since_activity > inactivity_threshold
                    THEN FALSE ELSE is_active
    /\ last_log' = IF time_since_activity > inactivity_threshold /\ is_active
                   THEN "went_inactive" ELSE last_log
    /\ pc' = "ca_return"
    /\ UNCHANGED <<now, last_activity_time, TrackerRest, SchedulerState, lock,
                   pcl, Settings, heartbeat, exit_code, window, cli_exists,
                   active_file, hb_now, time_since_activity, is_user_active,
                   seconds_since_activity, sleep_until>>

\* return self.is_active, leaving the with block.
check_activity_return ==
    /\ pc = "ca_return"
    /\ is_user_active' = is_active
    /\ lock' = "free"
    /\ pc' = "decide"
    /\ UNCHANGED <<now, ActivityState, TrackerRest, SchedulerState, pcl,
                   Settings, heartbeat, exit_code, window, cli_exists,
                   active_file, hb_now, time_since_activity,
                   seconds_since_activity, sleep_until, last_log>>

\* The condition without its activity test.
ShouldSend_ignores_activity(file, at, active) ==
    \/ file # last_file
    \/ at - last_heartbeat_at > heartbeat_frequency

\* The condition comparing the project name as well as the path.
ShouldSend_by_identity(file, at, active) ==
    \/ file # last_file
    \/ active_file # heartbeat
    \/ (at - last_heartbeat_at > heartbeat_frequency /\ active)

\* The condition comparing the time with >= instead of >.
ShouldSend_ge(file, at, active) ==
    \/ file # last_file
    \/ (at - last_heartbeat_at >= heartbeat_frequency /\ active)

\* The condition without its periodic part: a heartbeat on a file change
\* only.
ShouldSend_on_change_only(file, at, active) ==
    file # last_file

\* The condition of the if in send_heartbeat.
ShouldSend(file, at, active) ==
    \/ file # last_file
    \/ (at - last_heartbeat_at > heartbeat_frequency /\ active)

\* send_heartbeat stamping last_heartbeat_at on every evaluation.
Decide_stamps_always ==
    /\ pc = "decide"
    /\ last_heartbeat_at' = hb_now
    /\ IF ShouldSend(active_file[1], hb_now, is_user_active)
       THEN /\ last_file' = active_file[1]
            /\ heartbeat' = active_file
            /\ IF dry_run
               THEN last_log' = "dry_run" /\ EnterSleep
               ELSE /\ pc' = "send_gtsa_entry"
                    /\ UNCHANGED <<last_log, sleep_until>>
       ELSE /\ UNCHANGED <<last_file, heartbeat>>
            /\ IF ~is_user_active
               THEN /\ pc' = "skip_gtsa_entry"
                    /\ UNCHANGED <<last_log, sleep_until>>
               ELSE UNCHANGED last_log /\ EnterSleep
    /\ UNCHANGED <<now, ActivityState, TrackerRest, lock, pcl, Settings,
                   exit_code, window, cli_exists, active_file, hb_now,
                   time_since_activity, is_user_active,
                   seconds_since_activity>>

\* The if / elif of send_heartbeat, up to the dry-run log or the call of
\* get_time_since_activity.
Decide ==
    /\ pc = "decide"
    /\ IF ShouldSend(active_file[1], hb_now, is_user_active)
       THEN /\ last_heartbeat_at' = hb_now
            /\ last_file' = active_file[1]
            /\ heartbeat' = active_file
            /\ IF dry_run
               THEN last_log' = "dry_run" /\ EnterSleep
               ELSE /\ pc' = "send_gtsa_entry"
                    /\ UNCHANGED <<last_log, sleep_until>>
       ELSE /\ UNCHANGED <<SchedulerState, heartbeat>>
            /\ IF ~is_user_active
               THEN /\ pc' = "skip_gtsa_entry"
                    /\ UNCHANGED <<last_log, sleep_until>>
               ELSE UNCHANGED last_log /\ EnterSleep
    /\ UNCHANGED <<now, ActivityState, TrackerRest, lock, pcl, Settings,
                   exit_code, window, cli_exists, active_file, hb_now,
                   time_since_activity, is_user_active,
                   seconds_since_activity>>

\* get_time_since_activity: the tracking_enabled test, then `with self.lock`.
\* caller is "send" (the Sending heartbeat log) or "skip" (the Skipping
\* heartbeat log).
get_time_since_activity_entry(caller) ==
    /\ pc = caller \o "_gtsa_entry"
    /\ IF ~tracking_enabled
       THEN /\ seconds_since_activity' = 0
            /\ IF caller = "send"
               THEN pc' = "popen" /\ UNCHANGED <<last_log, sleep_until>>
               ELSE last_log' = "skip_inactive" /\ EnterSleep
            /\ UNCHANGED lock
       ELSE /\ lock = "free"
            /\ lock' = "poll"
            /\ pc' = caller \o "_gtsa_read"
            /\ UNCHANGED <<seconds_since_activity, last_log, sleep_until>>
    /\ UNCHANGED <<now, ActivityState, TrackerRest, SchedulerState, pcl,
                   Settings, heartbeat, exit_code, window, cli_exists,
                   active_file, hb_now, time_since_activity, is_user_active>>

\* return time.time() - self.last_activity_time, leaving the with block.
get_time_since_activity_read(caller) ==
    /\ pc = caller \o "_gtsa_read"
    /\ seconds_since_activity' = now - last_activity_time
    /\ lock' = "free"
    /\ IF caller = "send"
       THEN pc' = "popen" /\ UNCHANGED <<last_log, sleep_until>>
       ELSE last_log' = "skip_inactive" /\ EnterSleep
    /\ UNCHANGED <<now, ActivityState, TrackerRest, SchedulerState, pcl,
                   Settings, heartbeat, exit_code, window, cli_exists,
                   active_file, hb_now, time_since_activity, is_user_active>>

\* subprocess.Popen outside any try: a spawn failure reaches the handler of
\* run, which stops the tracker and leaves the loop.
Popen_untried ==
    /\ pc = "popen"
    /\ \E spawned \in BOOLEAN :
         /\ spawned => cli_exists
         /\ IF spawned
            THEN /\ last_log' = "sent"
                 /\ EnterSleep
                 /\ UNCHANGED <<stop_calls, listeners>>
            ELSE /\ last_log' = "main_loop_error"
                 /\ pc' = "stopped"
                 /\ stop_calls' = stop_calls + 1
                 /\ listeners' = IF tracking_enabled THEN "stopped"
                                 ELSE listeners
                 /\ UNCHANGED sleep_until
    /\ UNCHANGED <<now, ActivityState, inactivity_threshold, tracking_enabled,
                   SchedulerState, lock, pcl, Settings, heartbeat, exit_code,
                   window, cli_exists, active_file, hb_now,
                   time_since_activity, is_user_active,
                   seconds_since_activity>>

\* subprocess.Popen(cmd, ...) in its try / except: spawning fails when the
\* executable is gone, and may fail for other reasons when it is there.
Popen ==
    /\ pc = "popen"
    /\ \E spawned \in BOOLEAN :
         /\ spawned => cli_exists
         /\ last_log' = IF spawned THEN "sent" ELSE "send_error"
    /\ EnterSleep
    /\ UNCHANGED <<now, ActivityState, TrackerRest, SchedulerState, lock, pcl,
                   Settings, heartbeat, exit_code, window, cli_exists,
                   active_file, hb_now, time_since_activity, is_user_active,
                   seconds_since_activity>>

\* time.sleep(5) returns and the loop starts over; the locals of the last
\* tick are gone.
Wake ==
    /\ pc = "sleeping"
    /\ now >= sleep_until
    /\ pc' = "loop"
    /\ window' = NoWindow
    /\ active_file' = NoneTuple
    /\ hb_now' = Unset
    /\ time_since_activity' = Unset
    /\ is_user_active' = TRUE
    /\ seconds_since_activity' = Unset
    /\ sleep_until' = Unset
    /\ UNCHANGED <<now, ActivityState, TrackerRest, SchedulerState, lock, pcl,
                   Settings, heartbeat, exit_code, cli_exists, last_log>>

\* UserActivityTracker.stop
stop ==
    /\ stop_calls' = stop_calls + 1
    /\ listeners' = IF tracking_enabled THEN "stopped" ELSE listeners

\* The KeyboardInterrupt handler of run without its call of stop().
Interrupt_without_stop ==
    /\ pc \notin {"start", "init", "stopped", "exited"}
    /\ pc' = "stopped"
    /\ lock' = IF lock = "poll" THEN "free" ELSE lock
    /\ window' = NoWindow
    /\ exit_code' = 0
    /\ active_file' = NoneTuple
    /\ hb_now' = Unset
    /\ time_since_activity' = Unset
    /\ is_user_active' = TRUE
    /\ seconds_since_activity' = Unset
    /\ sleep_until' = Unset
    /\ last_log' = "monitor_stopped"
    /\ UNCHANGED <<now, ActivityState, TrackerRest, SchedulerState, pcl,
                   Settings, heartbeat, cli_exists>>

\* KeyboardInterrupt reaches run, anywhere in the loop: a with block that is
\* being executed releases the lock, the frames of the tick are unwound, the
\* handler stops the tracker and run returns.
Interrupt ==
    /\ pc \notin {"start", "init", "stopped", "exited"}
    /\ pc' = "stopped"
    /\ lock' = IF lock = "poll" THEN "free" ELSE lock
    /\ stop
    /\ window' = NoWindow
    /\ exit_code' = 0
    /\ active_file' = NoneTuple
    /\ hb_now' = Unset
    /\ time_since_activity' = Unset
    /\ is_user_active' = TRUE
    /\ seconds_since_activity' = Unset
    /\ sleep_until' = Unset
    /\ last_log' = "monitor_stopped"
    /\ UNCHANGED <<now, ActivityState, inactivity_threshold, tracking_enabled,
                   SchedulerState, pcl, Settings, heartbeat, cli_exists>>

\* A step of the program or a change of the CLI file.
Steps ==
    \/ CliChange
    \/ \E t \in Listeners : on_activity(t)
    \/ Classify
    \/ send_heartbeat_entry
    \/ check_activity_entry
    \/ check_activity_read
    \/ check_activity_update
    \/ check_activity_return
    \/ Decide
    \/ \E caller \in {"send", "skip"} : get_time_since_activity_entry(caller)
    \/ \E caller \in {"send", "skip"} : get_time_since_activity_read(caller)
    \/ Popen
    \/ Wake
    \/ Interrupt

Next ==
    \/ Advance
    \/ Steps

Spec == Init /\ [][Next]_vars

\* The running loop on the clock of TenSecondGrid.
NextTen ==
    \/ AdvanceTen
    \/ Steps

TenSecondSpec == Init /\ [][NextTen]_vars

\* The process from its start: construction, then the loop.
NextStartup ==
    \/ UserActivityTracker_init
    \/ KiCadWakaTime_init
    \/ Next

StartupSpec == InitStart /\ [][NextStartup]_vars

\* ---- the loop left to run for ever ----------------------------------------
\* The window that stays in the foreground: a saved project in the PCB
\* editor whose directory get_curr_prj_dir finds.
SameWindow ==
    [raises |-> FALSE, kicad_exe |-> TRUE, kicad_title |-> TRUE,
     old |-> <<>>, new |-> <<"myproj", "PCB Editor">>,
     prj_dir |-> "C:\\projects\\myproj"]

\* Every tick finds SameWindow in the foreground.
ClassifySame == Classify /\ window' = SameWindow

\* The clock of LiveSpec is kept within LiveWindow seconds of T0, so that it
\* can run for ever: once it is at LiveMax, a passing second moves the
\* origin instead, and every recorded time is a second lower.  Only
\* differences of times are ever compared, and they are kept, as long as the
\* times compared are less than LiveWindow seconds old.  The values below T0
\* (last_heartbeat_at = 0, an unbound local) stay as they are.
LiveWindow == heartbeat_frequency + 2 * SleepSeconds
LiveMax == T0 + LiveWindow

ShiftTime(v, s) ==
    IF v < T0 THEN v ELSE IF v - s < T0 THEN T0 ELSE v - s

\* time.sleep(5) takes its time: the clock moves from the call to the
\* moment the sleep is over, five seconds later or up to MaxOverrun seconds
\* more, and the rest of the tick takes no time on this clock.  The user
\* stays active: with tracking enabled, input has been recorded within
\* inactivity_threshold seconds of that moment.
AdvanceLive ==
    /\ pc = "sleeping"
    /\ now < sleep_until
    /\ \E over \in 0..MaxOverrun :
         LET t == sleep_until + over
             s == IF t > LiveMax THEN t - LiveMax ELSE 0
         IN  /\ tracking_enabled =>
                    t - last_activity_time <= inactivity_threshold
             /\ now' = t - s
             /\ last_activity_time' = ShiftTime(last_activity_time, s)
             /\ last_heartbeat_at' = ShiftTime(last_heartbeat_at, s)
             /\ hb_now' = ShiftTime(hb_now, s)
             /\ sleep_until' = ShiftTime(sleep_until, s)
    /\ UNCHANGED <<is_active, TrackerRest, last_file, lock, pcl, Settings,
                   heartbeat, exit_code, cli_exists, pc, window, active_file,
                   time_since_activity, is_user_active,
                   seconds_since_activity, last_log>>

\* The steps of the poll loop thread while the file stays in the foreground,
\* the CLI stays installed and the user stays active.
PollLive ==
    \/ ClassifySame
    \/ send_heartbeat_entry
    \/ check_activity_entry
    \/ check_activity_read
    \/ check_activity_update
    \/ check_activity_return
    \/ Decide
    \/ get_time_since_activity_entry("send")
    \/ get_time_since_activity_read("send")
    \/ Popen
    \/ Wake

\* The user works with the mouse: its listener delivers the input events.
NextLive ==
    \/ AdvanceLive
    \/ on_activity("mouse")
    \/ PollLive

\* The program is started without --inactivity-threshold.
InitLive == Init /\ inactivity_threshold = DefaultInactivityThreshold

\* The loop is not interrupted and the threads are scheduled: the poll loop
\* takes its next step, getting the lock if it is free again and again;
\* time passes; and the listener goes on delivering input events.
LiveSpec ==
    /\ InitLive
    /\ [][NextLive]_vars
    /\ SF_vars(PollLive)
    /\ WF_vars(AdvanceLive)
    /\ WF_vars(on_activity("mouse"))

\* ---- vocabulary of the properties -----------------------------------------
\* The poll loop has finished a tick that classified a file (it is in
\* time.sleep with the tick's locals still in place).
TickDoneWithFile == pc = "sleeping" /\ active_file # NoneTuple

\* The current tick has decided to send: it is past the if of send_heartbeat
\* on its true branch.
Emitted ==
    \/ pc \in {"send_gtsa_entry", "send_gtsa_read", "popen"}
    \/ pc = "sleeping" /\ last_log \in {"dry_run", "sent", "send_error"}

\* A step of the poll loop in which the tick's decision falls: the if / elif
\* of send_heartbeat is evaluated and not cut short by an interrupt.
DecisionStep == pc = "decide" /\ pc' \notin {"decide", "stopped"}

\* A step in which send_heartbeat returns at the CLI existence check.
CliMissingStep == pc = "hb_entry" /\ pc' = "sleeping"

\* What check_activity would return if it were called in this state.
TrackerReportsActive ==
    IF ~tracking_enabled THEN TRUE
    ELSE IF now - last_activity_time > inactivity_threshold THEN FALSE
    ELSE is_active

\* ---- C1 -------------------------------------------------------------------
\* C1 (as claimed): on every tick with a classified file, a heartbeat is
\* emitted if and only if the file differs from last_file, or more than
\* heartbeat_frequency seconds have passed since last_heartbeat_at and the
\* tracker reports the user active.  Stated on the two steps that settle
\* whether a tick emits: the if of send_heartbeat, and the early return at
\* the CLI existence check (which emits nothing).
C1_EmitIffRule ==
    [][ /\ DecisionStep =>
             (Emitted' <=> ShouldSend(active_file[1], hb_now, is_user_active))
        /\ CliMissingStep =>
             ~ShouldSend(active_file[1], now, TrackerReportsActive)
      ]_vars

\* The part of C1 that the code does: wherever the if of send_heartbeat is
\* reached, the tick emits exactly when the rule holds.
DecisionFollowsRule ==
    [][ DecisionStep =>
            (Emitted' <=> ShouldSend(active_file[1], hb_now, is_user_active))
      ]_vars

\* The same file, an active user and exactly heartbeat_frequency seconds
\* since the last heartbeat: the tick has not emitted.
NoEmitAtFrequency ==
    /\ TickDoneWithFile /\ hb_now # Unset /\ ~Emitted
    /\ tracking_enabled /\ is_user_active
    /\ active_file[1] = last_file
    /\ hb_now - last_heartbeat_at = heartbeat_frequency

\* ---- C2 -------------------------------------------------------------------
\* C2 (as claimed): a tick that classifies a file different from last_file
\* emits a heartbeat.  A tick that does not emit leaves last_file as it was,
\* so at the end of every tick that emitted nothing the tick's file is the
\* recorded one.
C2_FileChangeEmits ==
    (TickDoneWithFile /\ ~Emitted) => active_file[1] = last_file

\* ---- C8 -------------------------------------------------------------------
\* C8 (as claimed): when the dispatch of a tick fails, because the executable
\* is not found or because spawning it fails, last_file and
\* last_heartbeat_at are those of the tick.
DispatchFailed ==
    pc = "sleeping" /\ last_log \in {"cli_not_found", "send_error"}

C8_FailureStillUpdates ==
    DispatchFailed =>
        /\ last_file = active_file[1]
        /\ last_log = "send_error" => last_heartbeat_at = hb_now

\* The part of C8 that the code does: a spawn failure leaves the scheduler
\* state updated to the tick's time and file, and the loop goes on.
SpawnFailureStillUpdates ==
    (pc = "sleeping" /\ last_log = "send_error") =>
        /\ last_file = active_file[1]
        /\ last_heartbeat_at = hb_now

\* ---- C3 -------------------------------------------------------------------
\* C3: when the if of send_heartbeat is evaluated for the file recorded in
\* last_file and check_activity has reported the user inactive, the tick
\* takes the skip branch: no heartbeat is emitted and the scheduler state
\* stays as it is, whatever the time since last_heartbeat_at.
C3_SameFileInactiveSkips ==
    [][ (DecisionStep /\ active_file[1] = last_file /\ ~is_user_active) =>
            /\ ~Emitted'
            /\ pc' = "skip_gtsa_entry"
            /\ UNCHANGED SchedulerState
      ]_vars

\* A tick that skipped for inactivity although the last heartbeat was more
\* than heartbeat_frequency seconds before.
C3_Witness ==
    /\ pc = "sleeping"
    /\ last_log = "skip_inactive"
    /\ active_file[1] = last_file
    /\ ~is_user_active
    /\ hb_now - last_heartbeat_at > heartbeat_frequency

\* ---- C4 -------------------------------------------------------------------
\* C4: with tracking enabled, what check_activity returns is true exactly
\* when the time since the last activity that the query measured is at most
\* inactivity_threshold.
C4_ActiveIffWithinThreshold ==
    (tracking_enabled /\ pc = "decide") =>
        (is_user_active <=> time_since_activity <= inactivity_threshold)

\* A query one second past the threshold has returned false.
C4_Witness ==
    /\ tracking_enabled
    /\ pc = "decide"
    /\ time_since_activity = inactivity_threshold + 1
    /\ ~is_user_active

\* A query one second before the threshold has returned true.
C4_WitnessBefore ==
    /\ tracking_enabled
    /\ pc = "decide"
    /\ time_since_activity = inactivity_threshold - 1
    /\ is_user_active

\* A query at the threshold has returned true.
C4_WitnessAt ==
    /\ tracking_enabled
    /\ pc = "decide"
    /\ time_since_activity = inactivity_threshold
    /\ is_user_active

\* A later query has returned false again: the query of an earlier tick (the
\* one that set last_heartbeat_at) was already past the threshold.
C4_WitnessRepeated ==
    /\ tracking_enabled
    /\ pc = "decide"
    /\ last_activity_time = T0
    /\ last_heartbeat_at - T0 > inactivity_threshold
    /\ hb_now > last_heartbeat_at
    /\ ~is_user_active

\* A query after new activity has returned true again.
C4_WitnessReactivated ==
    /\ tracking_enabled
    /\ pc = "decide"
    /\ now - T0 > inactivity_threshold
    /\ last_activity_time > T0 + inactivity_threshold
    /\ is_user_active

\* ---- C5 -------------------------------------------------------------------
\* C5: the tracker starts active; is_active goes from true to false only in
\* the step of check_activity that has measured a time since the last
\* activity above inactivity_threshold; and an on_activity that leaves its
\* with block leaves is_active true, with last_activity_time the time it
\* wrote, no other thread having written either field in between.
C5_LazyInactiveEagerActive ==
    /\ is_active = TRUE
    /\ [][ /\ (is_active /\ ~is_active') =>
                 /\ pc = "ca_update"
                 /\ time_since_activity > inactivity_threshold
                 /\ now - last_activity_time > inactivity_threshold
           /\ \A t \in Listeners :
                 /\ (pcl[t] = "set_time" /\ pcl'[t] = "set_active") =>
                        last_activity_time' = now
                 /\ pcl[t] \in {"set_active", "release"} =>
                        last_activity_time' = last_activity_time
                 /\ pcl[t] = "release" => (is_active /\ is_active')
         ]_vars

\* An on_activity is about to leave its with block, with the flag true and
\* a timestamp taken more than inactivity_threshold after construction.
C5_Witness ==
    \E t \in Listeners :
        /\ pcl[t] = "release"
        /\ is_active
        /\ last_activity_time = now
        /\ last_activity_time > T0 + inactivity_threshold

\* ---- C6 -------------------------------------------------------------------
\* C6: every thread that is reading or writing last_activity_time or
\* is_active holds the lock, no two threads are in such a section at once,
\* and whenever the lock is free a false is_active comes with a
\* last_activity_time more than inactivity_threshold seconds old.
InSection(t) ==
    IF t = "poll"
    THEN pc \in {"ca_read", "ca_update", "ca_return",
                 "send_gtsa_read", "skip_gtsa_read"}
    ELSE pcl[t] \in {"set_time", "set_active", "release"}

C6_PairGuardedByLock ==
    /\ \A t \in Listeners \cup {"poll"} : InSection(t) => lock = t
    /\ lock = "free" =>
          (~is_active => now - last_activity_time > inactivity_threshold)

\* A listener has written a fresh timestamp next to a still false flag, and
\* holds the lock while the poll loop and the other listener wait for it.
C6_Witness ==
    /\ pcl["mouse"] = "set_active"
    /\ pcl["keyboard"] = "idle"
    /\ ~is_active
    /\ last_activity_time = now
    /\ pc = "ca_entry"
    /\ lock = "mouse"

\* ---- C7 -------------------------------------------------------------------
\* C7: without pynput (tracking_enabled false) no listener exists and no
\* on_activity runs, check_activity returns true and get_time_since_activity
\* returns 0 whatever the time since construction, neither takes the lock,
\* and stop() leaves the tracker as it is.
C7_DegradedAlwaysActive ==
    ~tracking_enabled =>
        /\ listeners = "none"
        /\ \A t \in Listeners : pcl[t] = "idle"
        /\ lock = "free"
        /\ is_active /\ last_activity_time = T0
        /\ is_user_active
        /\ pc \notin {"ca_read", "ca_update", "ca_return",
                      "send_gtsa_read", "skip_gtsa_entry", "skip_gtsa_read"}
        /\ (pc = "popen" \/ (pc = "sleeping" /\ last_log \in {"sent", "send_error"}))
              => seconds_since_activity = 0
        /\ pc = "stopped" => stop_calls = 1

\* Degraded mode, more than inactivity_threshold seconds after construction:
\* check_activity has returned true and get_time_since_activity 0.
C7_Witness ==
    /\ ~tracking_enabled
    /\ pc = "popen"
    /\ is_user_active
    /\ seconds_since_activity = 0
    /\ active_file[1] = last_file
    /\ hb_now - last_activity_time > inactivity_threshold

\* Degraded mode after the interrupt: stop() was called and changed nothing.
C7_WitnessStop ==
    /\ ~tracking_enabled
    /\ pc = "stopped"
    /\ stop_calls = 1
    /\ listeners = "none"

\* ---- C9 -------------------------------------------------------------------
\* C9: a tick in which classification raises, the CLI is found missing or
\* spawning fails logs the error and ends in time.sleep like any other
\* tick, without stopping the tracker; from time.sleep the loop goes to its
\* top; and the loop is left only through the KeyboardInterrupt handler.
ErrorStep ==
    /\ pc' # pc
    /\ \/ pc = "loop" /\ last_log' = "window_error"
       \/ pc = "hb_entry" /\ last_log' = "cli_not_found"
       \/ pc = "popen" /\ last_log' = "send_error"

C9_ErrorsStayInTick ==
    [][ /\ ErrorStep =>
             /\ pc' = "sleeping"
             /\ stop_calls' = stop_calls
             /\ listeners' = listeners
        /\ (pc = "sleeping" /\ pc' # "sleeping") => pc' \in {"loop", "stopped"}
        /\ (pc # "stopped" /\ pc' = "stopped") => last_log' = "monitor_stopped"
      ]_vars

\* The loop is back at its top after a tick whose spawn failed.
C9_Witness ==
    /\ pc = "loop"
    /\ last_log = "send_error"
    /\ stop_calls = 0

\* A tick whose classification raised is in time.sleep.
C9_WitnessWindow ==
    /\ pc = "sleeping"
    /\ last_log = "window_error"
    /\ stop_calls = 0

\* ---- C10 ------------------------------------------------------------------
\* C10: last_heartbeat_at and last_file change only in the step that
\* evaluates the if of send_heartbeat to true, and then to the tick's time
\* and file; every other step, of a tick that decides not to send or has no
\* file included, leaves both as they are.
C10_SchedulerStateOnlyOnSend ==
    [][ (SchedulerState' # SchedulerState) =>
            /\ pc = "decide"
            /\ ShouldSend(active_file[1], hb_now, is_user_active)
            /\ Emitted'
            /\ last_heartbeat_at' = hb_now
            /\ last_file' = active_file[1]
      ]_vars

\* A tick evaluated the rule for the recorded file, decided not to send and
\* left the state of an earlier heartbeat in place.
C10_Witness ==
    /\ pc = "sleeping"
    /\ active_file # NoneTuple
    /\ hb_now # Unset
    /\ ~Emitted
    /\ last_file = active_file[1]
    /\ last_heartbeat_at # 0
    /\ last_heartbeat_at < hb_now

\* A tick without a file has ended with the state of an earlier heartbeat in
\* place.
C10_WitnessNoFile ==
    /\ pc = "sleeping"
    /\ active_file = NoneTuple
    /\ last_file # None
    /\ now > last_heartbeat_at

\* ---- C11 ------------------------------------------------------------------
\* C11: an interrupt that reaches the running poll loop, in a tick or in
\* time.sleep, takes the loop straight to its end: that step calls stop()
\* once, which stops the listeners that were started, and from then on no
\* tick starts, stop() is not called again, no callback of a listener
\* starts, and no heartbeat is decided or sent.
C11_InterruptStopsOnce ==
    /\ [](pc = "stopped" =>
             /\ stop_calls = 1
             /\ listeners = (IF tracking_enabled THEN "stopped" ELSE "none")
             /\ ~Emitted
             /\ exit_code = 0)
    /\ [][ /\ (pc # "stopped" /\ pc' = "stopped") =>
                 /\ stop_calls = 0 /\ stop_calls' = 1
                 /\ listeners = (IF tracking_enabled THEN "running"
                                 ELSE "none")
                 /\ UNCHANGED <<SchedulerState, heartbeat>>
           /\ pc = "stopped" =>
                 /\ pc' = "stopped"
                 /\ UNCHANGED <<stop_calls, listeners, SchedulerState,
                                heartbeat, last_log>>
                 /\ \A t \in Listeners : pcl[t] = "idle" => pcl'[t] = "idle"
           /\ listeners' # listeners => (pc # "stopped" /\ pc' = "stopped")
         ]_vars

\* The loop was interrupted after a heartbeat had been sent, while a callback
\* of a listener was in progress: the listeners are stopped, stop() has been
\* called once, and the callback is finishing.
C11_Witness ==
    /\ pc = "stopped"
    /\ tracking_enabled
    /\ listeners = "stopped"
    /\ stop_calls = 1
    /\ heartbeat # NoneTuple
    /\ \E t \in Listeners : pcl[t] = "release"

\* ---- C12 ------------------------------------------------------------------
\* C12: construction ends in exactly one of two ways.  If no wakatime-cli*
\* file is found or ~/.wakatime.cfg has no api_key, the process exits with
\* code 1 without having entered the loop: no tick starts, nothing is
\* decided or sent, and the scheduler state is never written.  Otherwise the
\* loop is entered with the api_key of the file and with its api_url, or
\* the default URL when the file has none.
StartupFails == ~cli_exists \/ wakatime_cfg.api_key = None

C12_StartupFailureIsFatal ==
    /\ [](pc = "exited" =>
             /\ exit_code = 1
             /\ heartbeat = NoneTuple
             /\ ~Emitted
             /\ SchedulerState = <<0, None>>)
    /\ [](exit_code = 1 => pc = "exited")
    /\ [][ /\ (pc = "init" /\ pc' # "init") =>
                 IF StartupFails
                 THEN pc' = "exited"
                 ELSE /\ pc' = "loop"
                      /\ api_key' = wakatime_cfg.api_key
                      /\ api_url' = IF wakatime_cfg.api_url = None
                                    THEN DefaultApiUrl
                                    ELSE wakatime_cfg.api_url
           /\ pc = "exited" => UNCHANGED vars
           /\ pc \in {"start", "init"} =>
                 pc' \in {"start", "init", "loop", "exited"}
         ]_vars

\* The CLI is installed and ~/.wakatime.cfg has an api_url but no api_key:
\* the process has exited with code 1.
C12_Witness ==
    /\ pc = "exited"
    /\ exit_code = 1
    /\ cli_exists
    /\ wakatime_cfg.api_key = None
    /\ wakatime_cfg.api_url # None

\* The CLI is missing and the configuration complete: exit with code 1.
C12_WitnessNoCli ==
    /\ pc = "exited"
    /\ exit_code = 1
    /\ ~cli_exists
    /\ wakatime_cfg.api_key # None
    /\ last_log = "failed_to_start"

\* ~/.wakatime.cfg has an api_key and no api_url: the loop runs with the
\* default URL and has decided to send a heartbeat.
C12_WitnessDefaultUrl ==
    /\ pc = "popen"
    /\ wakatime_cfg.api_url = None
    /\ api_url = DefaultApiUrl
    /\ api_key = "key"

\* ---- C13 ------------------------------------------------------------------
\* C13: a tick whose foreground window is not a KiCad window, has a title
\* that neither pattern matches, or makes a call of the lookup raise, goes
\* from the top of the loop straight to time.sleep: send_heartbeat is not
\* entered (no time is read, no activity query made, nothing decided or
\* sent), and the step leaves last_heartbeat_at, last_file,
\* last_activity_time and is_active as they are.  Nor does the poll loop
\* write any of them until the next tick starts.
NoFileIn(w) ==
    \/ w.raises
    \/ ~(w.kicad_title \/ w.kicad_exe)
    \/ (w.old = <<>> /\ w.new = <<>>)

C13_NullTickIsInert ==
    [][ /\ (pc = "loop" /\ pc' \notin {"loop", "stopped"} /\ NoFileIn(window'))
              => /\ pc' = "sleeping"
                 /\ active_file' = NoneTuple
                 /\ hb_now' = Unset
                 /\ time_since_activity' = Unset
                 /\ ~Emitted'
                 /\ UNCHANGED <<SchedulerState, ActivityState, heartbeat,
                                lock>>
        /\ (pc = "sleeping" /\ active_file = NoneTuple /\ pc' # pc)
              => /\ pc' \in {"loop", "stopped"}
                 /\ UNCHANGED <<SchedulerState, ActivityState, heartbeat>>
      ]_vars

\* The foreground process is a KiCad executable but its title matches
\* neither pattern: the tick is in time.sleep with the state of an earlier
\* heartbeat in place.
C13_Witness ==
    /\ pc = "sleeping"
    /\ window.kicad_exe /\ ~window.kicad_title
    /\ active_file = NoneTuple
    /\ hb_now = Unset
    /\ heartbeat # NoneTuple
    /\ last_file = heartbeat[1]

\* A tick whose lookup raised is in time.sleep, nothing evaluated.
C13_WitnessRaised ==
    /\ pc = "sleeping"
    /\ window.raises
    /\ active_file = NoneTuple
    /\ hb_now = Unset
    /\ last_file # None

\* ---- C14 ------------------------------------------------------------------
\* C14: the poll loop goes through a tick in one order: the lookup of the
\* window, then (with a file) the time and the activity query, then the if
\* of send_heartbeat, then, on its true branch only, the log and the spawn.
\* last_heartbeat_at and last_file are written in no step before the if is
\* evaluated; they are written in the step that evaluates it to true, and
\* are the tick's time and file by the time the spawn is reached.
Phase(p) ==
    CASE p = "loop" -> 0
      [] p \in {"hb_entry", "ca_entry", "ca_read", "ca_update", "ca_return"}
           -> 1
      [] p = "decide" -> 2
      [] p \in {"send_gtsa_entry", "send_gtsa_read", "skip_gtsa_entry",
                "skip_gtsa_read"} -> 3
      [] p = "popen" -> 4
      [] p = "sleeping" -> 5
      [] OTHER -> 6

C14_ClassifyDecideSend ==
    /\ [](pc \in {"send_gtsa_entry", "send_gtsa_read", "popen"} =>
             /\ active_file # NoneTuple
             /\ last_heartbeat_at = hb_now
             /\ last_file = active_file[1]
             /\ heartbeat = active_file)
    /\ [](Phase(pc) \in 1..4 => active_file = get_active_kicad_window(window))
    /\ [][ /\ (pc' # pc /\ Phase(pc) < 5) => Phase(pc') >= Phase(pc)
           /\ (pc' # pc /\ Phase(pc') = 1 /\ Phase(pc) # 1) => pc = "loop"
           /\ (pc' # pc /\ pc' = "decide") => Phase(pc) = 1
           /\ (pc' # pc /\ Phase(pc') = 3) => pc = "decide" \/ Phase(pc) = 3
           /\ (pc' # pc /\ pc' = "popen") => (Phase(pc) = 3 /\ Emitted)
           /\ Phase(pc) < 2 => UNCHANGED <<SchedulerState, heartbeat>>
           /\ Phase(pc) > 2 => UNCHANGED <<SchedulerState, heartbeat>>
           /\ (pc = "decide" /\ SchedulerState' # SchedulerState) =>
                 /\ ShouldSend(active_file[1], hb_now, is_user_active)
                 /\ Emitted'
         ]_vars

\* The spawn of a tick is reached: the window was looked up, the activity
\* queried after the time was read, and the scheduler state is the tick's.
C14_Witness ==
    /\ pc = "popen"
    /\ tracking_enabled
    /\ window # NoWindow
    /\ time_since_activity # Unset
    /\ hb_now > last_activity_time
    /\ last_heartbeat_at = hb_now
    /\ last_file = active_file[1]
    /\ now > hb_now

\* ---- C15 ------------------------------------------------------------------
\* C15 (as claimed): change detection compares the whole (path, project
\* name) pair, so a tick whose pair differs from that of the last emission
\* in either component emits.  A tick that evaluated the rule and emitted
\* nothing therefore has the pair of the last emission.
C15_IdentityChangeEmits ==
    (TickDoneWithFile /\ hb_now # Unset /\ ~Emitted) => active_file = heartbeat

\* C15 (amended): change detection compares the path alone.  Where the if
\* of send_heartbeat is evaluated, a path different from last_file emits;
\* the same path with the frequency not exceeded or the user inactive does
\* not, whatever the project name; and last_file is the path of the last
\* emission, the project name being recorded nowhere but in the command.
C15_PathChangeEmits ==
    /\ [](last_file = (IF heartbeat = NoneTuple THEN None ELSE heartbeat[1]))
    /\ [][ DecisionStep =>
             /\ active_file[1] # last_file => Emitted'
             /\ ( /\ active_file[1] = last_file
                  /\ ~(hb_now - last_heartbeat_at > heartbeat_frequency
                       /\ is_user_active) )
                  => (~Emitted' /\ UNCHANGED <<SchedulerState, heartbeat>>)
         ]_vars

\* A tick with the path of the last emission and another project name has
\* evaluated the rule and emitted nothing.
C15_Witness ==
    /\ TickDoneWithFile /\ hb_now # Unset /\ ~Emitted
    /\ last_file = active_file[1]
    /\ heartbeat[1] = active_file[1]
    /\ heartbeat[2] # active_file[2]

\* ---- C16 ------------------------------------------------------------------
\* C16 (as claimed): the lookup returns None exactly when the window is not
\* a KiCad window (neither the process name nor the title has a KiCad
\* fragment) or its title matches neither pattern.
NotCadOrUnparseable(w) ==
    \/ ~(w.kicad_title \/ w.kicad_exe)
    \/ (w.old = <<>> /\ w.new = <<>>)

C16_NullIffNotCadOrUnparseable ==
    window # NoWindow =>
        (active_file = NoneTuple <=> NotCadOrUnparseable(window))

\* C16 (amended): the lookup returns None exactly when the window is not a
\* KiCad window, or its title matches neither pattern, or a call made during
\* the lookup raised; it never raises itself, so the tick goes on to
\* send_heartbeat or to time.sleep.  In every other case it returns a pair:
\* the matched file name and its stem for the old format; for the new
\* format the directory, a backslash, the project name and the extension of
\* the editor, with the project name -- and with "None" for the directory
\* when get_curr_prj_dir found none.
C16_NullIffNotCadUnparseableOrRaised ==
    /\ [](window # NoWindow =>
             /\ active_file = NoneTuple <=>
                    (window.raises \/ NotCadOrUnparseable(window))
             /\ (active_file # NoneTuple /\ window.old # <<>>) =>
                    active_file = <<window.old[1] \o window.old[2],
                                    window.old[1]>>
             /\ (active_file # NoneTuple /\ window.old = <<>>) =>
                    /\ active_file[2] = window.new[1]
                    /\ active_file[1] =
                          (IF window.prj_dir = None THEN "None"
                           ELSE window.prj_dir)
                          \o "\\" \o window.new[1]
                          \o EditorExtension(window.new[2]))
    /\ [][ (pc = "loop" /\ window' # NoWindow) =>
                pc' = (IF active_file' = NoneTuple THEN "sleeping"
                       ELSE "hb_entry")
         ]_vars

\* A new-format title whose project directory was not found: the lookup
\* returned a pair with the path built on "None", and the tick has gone on
\* to decide on it.
C16_Witness ==
    /\ pc = "decide"
    /\ ~window.raises
    /\ window.new = <<"myproj", "PCB Editor">>
    /\ window.prj_dir = None
    /\ active_file = <<"None\\myproj.kicad_pcb", "myproj">>

\* A KiCad title that matches the old pattern, and a lookup that raised:
\* the tick has no file.
C16_WitnessRaised ==
    /\ pc = "sleeping"
    /\ window.raises
    /\ window.kicad_title
    /\ window.old # <<>>
    /\ active_file = NoneTuple
    /\ last_log = "window_error"

\* ---- C17 ------------------------------------------------------------------
\* C17 (as claimed): with dry_run nothing is ever spawned, and the decision
\* of every tick and the scheduler state it leaves are those of the rule
\* applied to the tick's file, time and activity, the same with and without
\* dry_run.  Stated on the two steps that settle a tick with a file: the if
\* of send_heartbeat and the early return at the CLI existence check.
Scheduled(file, at, active) ==
    IF ShouldSend(file, at, active) THEN <<at, file>> ELSE SchedulerState

C17_DryRunSameAsReal ==
    /\ [](dry_run =>
             /\ pc \notin {"send_gtsa_entry", "send_gtsa_read", "popen"}
             /\ last_log \notin {"sent", "send_error"})
    /\ [][ /\ DecisionStep =>
                 SchedulerState' =
                     Scheduled(active_file[1], hb_now, is_user_active)
           /\ CliMissingStep =>
                 SchedulerState' =
                     Scheduled(active_file[1], now, TrackerReportsActive)
         ]_vars

\* The part of C17 that the code does: with dry_run no tick reaches the
\* spawn, and wherever the if of send_heartbeat is reached the scheduler
\* state is that of the rule, with and without dry_run.
DryRunNeverSpawns ==
    /\ [](dry_run =>
             /\ pc \notin {"send_gtsa_entry", "send_gtsa_read", "popen"}
             /\ last_log \notin {"sent", "send_error"})
    /\ [][ DecisionStep =>
             SchedulerState' =
                 Scheduled(active_file[1], hb_now, is_user_active)
         ]_vars

\* ---- C18 ------------------------------------------------------------------
\* C18: a step of a listener thread is a step of on_activity and nothing
\* else: it leaves last_heartbeat_at, last_file and everything of the poll
\* loop as they are, and writes at most the current time to
\* last_activity_time or true to is_active.  last_heartbeat_at and
\* last_file change only in steps of the poll loop, and last_activity_time
\* changes only in the step of a listener that stamps it.
ListenerStep == \E t \in Listeners : pcl'[t] # pcl[t]

C18_SchedulerStateIsPollOnly ==
    [][ /\ ListenerStep =>
             /\ UNCHANGED <<SchedulerState, heartbeat, pc, PollLocals,
                            last_log, TrackerRest>>
             /\ last_activity_time' \in {last_activity_time, now}
             /\ is_active' \in {is_active, TRUE}
        /\ (SchedulerState' # SchedulerState) =>
             (pc' # pc /\ ~ListenerStep)
        /\ (last_activity_time' # last_activity_time) =>
             /\ pc' = pc
             /\ \E t \in Listeners :
                   pcl[t] = "set_time" /\ pcl'[t] = "set_active"
      ]_vars

\* In the middle of a tick, after an earlier heartbeat: a listener stamped
\* last_activity_time after the tick read the time, and the scheduler state
\* is still that of the earlier heartbeat.
C18_Witness ==
    /\ pc = "decide"
    /\ last_file # None
    /\ last_heartbeat_at < hb_now
    /\ last_activity_time > hb_now
    /\ \E t \in Listeners : pcl[t] = "release"

\* ---- C19 ------------------------------------------------------------------
\* C19: "User inactive" is logged only in a step of check_activity that
\* takes is_active from true to false, having measured a time above the
\* threshold; and is_active goes back to true only in an on_activity.  So
\* between two on_activity calls it is logged at most once, and a query
\* made while is_active is already false logs nothing.
LogsWentInactive == pc = "ca_update" /\ pc' = "ca_return"
                    /\ last_log' = "went_inactive"

C19_WentInactiveLoggedOnce ==
    [][ /\ LogsWentInactive =>
             /\ is_active /\ ~is_active'
             /\ time_since_activity > inactivity_threshold
        /\ (pc = "ca_update" /\ pc' = "ca_return" /\ ~is_active) =>
             (last_log' = last_log /\ last_log' # "went_inactive")
        /\ (~is_active /\ is_active') =>
             \E t \in Listeners :
                 pcl[t] = "set_active" /\ pcl'[t] = "release"
      ]_vars

\* A query measured a time above the threshold while is_active was already
\* false, set by the query of an earlier tick, and has logged nothing.
C19_Witness ==
    /\ pc = "ca_return"
    /\ time_since_activity > inactivity_threshold
    /\ ~is_active
    /\ last_log = "none"
    /\ last_activity_time = T0

\* A query has just logged that the user went inactive.
C19_WitnessLogged ==
    /\ pc = "ca_return"
    /\ ~is_active
    /\ last_log = "went_inactive"

\* ---- C20 ------------------------------------------------------------------
\* C20: last_heartbeat_at is the time of the last heartbeat and last_file
\* its file; a tick that emits for the file of the last heartbeat has read
\* a time more than heartbeat_frequency seconds after it (and found the
\* user active), and a tick for that file within heartbeat_frequency
\* seconds of it, ten seconds after it in particular, emits nothing.
C20_SameFileRateLimit ==
    /\ [](heartbeat # NoneTuple => last_file = heartbeat[1])
    /\ [](last_heartbeat_at <= now)
    /\ [][ /\ (DecisionStep /\ Emitted') => last_heartbeat_at' = hb_now
           /\ (DecisionStep /\ ~Emitted') =>
                 UNCHANGED <<last_heartbeat_at, heartbeat>>
           /\ (DecisionStep /\ Emitted' /\ heartbeat # NoneTuple
                  /\ active_file[1] = heartbeat[1]) =>
                 /\ hb_now - last_heartbeat_at > heartbeat_frequency
                 /\ is_user_active
           /\ (DecisionStep /\ heartbeat # NoneTuple
                  /\ active_file[1] = heartbeat[1]
                  /\ hb_now - last_heartbeat_at <= heartbeat_frequency) =>
                 ~Emitted'
         ]_vars

\* The tick ten seconds after a heartbeat, for the same file and with the
\* user active, has emitted nothing.
C20_Witness ==
    /\ TickDoneWithFile /\ hb_now # Unset /\ ~Emitted
    /\ tracking_enabled /\ is_user_active
    /\ heartbeat # NoneTuple
    /\ active_file = heartbeat
    /\ hb_now - last_heartbeat_at = 2 * SleepSeconds

\* The tick heartbeat_frequency seconds after a heartbeat, for the same
\* file and with the user active, has emitted nothing.
C20_WitnessAtFrequency ==
    /\ TickDoneWithFile /\ hb_now # Unset /\ ~Emitted
    /\ tracking_enabled /\ is_user_active
    /\ active_file = heartbeat
    /\ hb_now - last_heartbeat_at = heartbeat_frequency

\* The tick seventy seconds after a heartbeat, for the same file and with
\* the user active, is at the if of send_heartbeat, which will emit.
C20_WitnessSecond ==
    /\ pc = "decide"
    /\ tracking_enabled /\ is_user_active
    /\ active_file = heartbeat
    /\ last_heartbeat_at = T0
    /\ hb_now = T0 + heartbeat_frequency + 2 * SleepSeconds

\* ---- C21 ------------------------------------------------------------------
\* A step in which the tick decides to send for the file of the last
\* heartbeat.
SameFileEmission ==
    /\ DecisionStep
    /\ Emitted'
    /\ heartbeat # NoneTuple
    /\ active_file = heartbeat

\* C21 (as claimed): while the same file stays in the foreground, the user
\* stays active, the CLI is installed and the loop is not interrupted, two
\* consecutive heartbeats for the file are at most heartbeat_frequency plus
\* the five seconds of time.sleep apart.
C21_GapAtMostFrequencyPlusSleep ==
    [][ SameFileEmission =>
            hb_now - last_heartbeat_at <= heartbeat_frequency + SleepSeconds
      ]_vars

\* C21 (amended): under the same conditions heartbeats for the file are
\* decided again and again, for ever, each more than heartbeat_frequency
\* seconds after the one before and at most heartbeat_frequency seconds
\* plus the time from one tick to the next, which is the five seconds of
\* time.sleep and whatever the sleep takes longer.
C21_HeartbeatsRecur ==
    /\ []<><<SameFileEmission>>_vars
    /\ [][ SameFileEmission =>
             /\ hb_now - last_heartbeat_at > heartbeat_frequency
             /\ hb_now - last_heartbeat_at
                   <= heartbeat_frequency + SleepSeconds + MaxOverrun
         ]_vars
    /\ [](now - last_heartbeat_at < LiveWindow \/ last_heartbeat_at < T0)

\* A tick for the file of the last heartbeat is at the if of send_heartbeat
\* with the user active, a second more than heartbeat_frequency plus five
\* seconds after that heartbeat: the tick before it came exactly
\* heartbeat_frequency seconds after the heartbeat, and the sleep between
\* the two took six seconds.
C21_Witness ==
    /\ pc = "decide"
    /\ tracking_enabled /\ is_user_active
    /\ active_file = heartbeat
    /\ last_heartbeat_at >= T0
    /\ hb_now - last_heartbeat_at = heartbeat_frequency + SleepSeconds + 1

\* The same with sleeps of five seconds: the heartbeat comes
\* heartbeat_frequency plus five seconds after the one before, after the
\* origin of the clock has moved.
C21_WitnessExact ==
    /\ pc = "decide"
    /\ tracking_enabled /\ is_user_active
    /\ active_file = heartbeat
    /\ now = LiveMax
    /\ last_heartbeat_at > T0
    /\ hb_now - last_heartbeat_at = heartbeat_frequency + SleepSeconds

\* ---- types ----------------------------------------------------------------
TypeOK ==
    /\ now \in T0..MaxTime
    /\ last_activity_time \in T0..MaxTime
    /\ is_active \in BOOLEAN
    /\ lock \in {"free", "poll"} \cup Listeners
    /\ stop_calls \in 0..1
    /\ last_heartbeat_at \in {0} \cup (T0..MaxTime)
    /\ is_user_active \in BOOLEAN
    /\ exit_code \in {Unset, 0, 1}
    /\ pc \in {"start", "init", "exited", "loop", "hb_entry", "ca_entry",
               "ca_read", "ca_update", "ca_return", "decide",
               "send_gtsa_entry", "send_gtsa_read", "skip_gtsa_entry",
               "skip_gtsa_read", "popen", "sleeping", "stopped"}
    /\ active_file \in {NoneTuple} \cup
                        {get_active_kicad_window(w) : w \in Windows}
====
